---- MODULE Spec2Model ----
(***************************************************************************)
(* A model of the CasJobs client of src/casjobs.py: one client object, the *)
(* operations called on it one at a time, and the remote service as the    *)
(* environment that answers every HTTP request.                            *)
(*                                                                         *)
(* Text is a sequence of one-character strings, so that int(), split()     *)
(* and slicing are computed the way Python computes them.  An XML body is  *)
(* the sequence of its elements in document order; each element has a tag  *)
(* and the sequence of its child nodes.                                    *)
(***************************************************************************)
EXTENDS Integers, Sequences, FiniteSets, TLC

\* Probes of one monitor call that are counted and recorded one by one: a
\* loop that has not returned by then goes on with its counters saturated.
MaxProbes == 4
\* Table names in one listing of MyDB.
MaxTables == 2

VARIABLES
    self,           \* the client's attributes (lines 53-68)
    send_defaults,  \* the keys stored in the default `params={}` dict of _send_request
    pc,             \* where the running call is; "done" when it has ended and
                    \* "idle" once the caller has taken its result
    call,           \* the running (or last) operation and the locals later steps read
    log,            \* the HTTP requests and file writes of the running (or last) call
    probes,         \* status probes sent by the running monitor loop
    sleeps,         \* time.sleep calls of the running monitor loop
    seen,           \* status codes the running monitor loop has read, in order
    result,         \* what the last call returned or raised
    resp,           \* the last HTTP response received
    server          \* the status the service holds for the job the call is about

vars == <<self, send_defaults, pc, call, log, probes, sleeps, seen, result, resp, server>>

----------------------------------------------------------------------------
(* Text *)

NL == "\n"
QUOTE == "\""

Digits == {"0", "1", "2", "3", "4", "5", "6", "7", "8", "9"}

DigitVal(c) ==
    CASE c = "0" -> 0 [] c = "1" -> 1 [] c = "2" -> 2 [] c = "3" -> 3
      [] c = "4" -> 4 [] c = "5" -> 5 [] c = "6" -> 6 [] c = "7" -> 7
      [] c = "8" -> 8 [] c = "9" -> 9

RECURSIVE DecVal(_)
DecVal(t) ==
    IF t = <<>> THEN 0
    ELSE 10 * DecVal(SubSeq(t, 1, Len(t) - 1)) + DigitVal(t[Len(t)])

AllDigits(t) == t # <<>> /\ \A i \in 1..Len(t) : t[i] \in Digits

\* The errors the code raises: the exception type, the operation that raised
\* it, and the HTTP or job status it carries (0 when it carries none).
Err(type, where, code) == [type |-> type, where |-> where, code |-> code]
NoErr == Err("", "", 0)

\* What an operation returns: an integer, a status name, a text, a list.
NoVal == [int |-> 0, name |-> "", text |-> <<>>, list |-> <<>>]
IntVal(n) == [NoVal EXCEPT !.int = n]
TextVal(t) == [NoVal EXCEPT !.text = t]
ListVal(l) == [NoVal EXCEPT !.list = l]

\* How a piece of code ends: it returns val or raises err, having sent the
\* requests (and made the writes) of `sent`, in order.
Return(v) == [raised |-> FALSE, err |-> NoErr, val |-> v, sent |-> <<>>]
Raise(e) == [raised |-> TRUE, err |-> e, val |-> NoVal, sent |-> <<>>]
\* The outcome o of code that ran after the effects `before`.
After(before, o) == [o EXCEPT !.sent = before \o @]

\* int(text) on a str: an optional sign and decimal digits, or ValueError.
int(t) ==
    IF AllDigits(t) THEN Return(IntVal(DecVal(t)))
    ELSE IF Len(t) > 1 /\ t[1] \in {"-", "+"} /\ AllDigits(Tail(t))
         THEN Return(IntVal(IF t[1] = "-" THEN 0 - DecVal(Tail(t)) ELSE DecVal(Tail(t))))
         ELSE Raise(Err("ValueError", "int", 0))

\* text.split(sep) for a one-character separator: never empty.
RECURSIVE split(_, _)
split(t, sep) ==
    IF \A i \in 1..Len(t) : t[i] # sep THEN <<t>>
    ELSE LET k == CHOOSE i \in 1..Len(t) : t[i] = sep /\ \A j \in 1..(i - 1) : t[j] # sep
         IN  <<SubSeq(t, 1, k - 1)>> \o split(SubSeq(t, k + 1, Len(t)), sep)

\* s[1:-1] of a str or a list.
slice_1_m1(s) == SubSeq(s, 2, Len(s) - 1)
\* s[1:] of a list, the slice an off-by-one leaves.
slice_1(s) == SubSeq(s, 2, Len(s))

----------------------------------------------------------------------------
(* XML bodies, as xml.dom.minidom presents them *)

TextNode(t) == [kind |-> "text", tag |-> "", data |-> <<t>>]
\* A child element; data holds the data of its own first child when that is text.
ElemNode(tag, data) == [kind |-> "elem", tag |-> tag, data |-> data]
El(tag, kids) == [tag |-> tag, kids |-> kids]
Doc(els) == [wellformed |-> TRUE, els |-> els]
NotXml == [wellformed |-> FALSE, els |-> <<>>]

\* doc.getElementsByTagName(tagname): the elements with that tag, in document order.
RECURSIVE getElementsByTagName(_, _)
getElementsByTagName(els, tagname) ==
    IF els = <<>> THEN <<>>
    ELSE (IF Head(els).tag = tagname THEN <<Head(els)>> ELSE <<>>)
         \o getElementsByTagName(Tail(els), tagname)

\* _parse_single with a default in place of the error of a missing tag or text.
parse_single_default(text, tagname) ==
    IF ~text.wellformed THEN Raise(Err("ExpatError", "_parse_single", 0))
    ELSE LET found == getElementsByTagName(text.els, tagname)
         IN  IF found = <<>> \/ found[1].kids = <<>> \/ found[1].kids[1].kind # "text"
             THEN Return(TextVal(<<"0">>))
             ELSE Return(TextVal(found[1].kids[1].data[1]))

\* _parse_single: minidom.parseString(text).getElementsByTagName(tagname)[0].firstChild.data
parse_single(text, tagname) ==
    IF ~text.wellformed THEN Raise(Err("ExpatError", "_parse_single", 0))
    ELSE LET found == getElementsByTagName(text.els, tagname)
         IN  IF found = <<>> THEN Raise(Err("IndexError", "_parse_single", 0))
             ELSE IF found[1].kids = <<>> \/ found[1].kids[1].kind # "text"
                  THEN Raise(Err("AttributeError", "_parse_single", 0))
                  ELSE Return(TextVal(found[1].kids[1].data[1]))

\* The dict job_info builds of one CJJob element, as far as get_output reads
\* it: each key holds <<data>>, or <<>> when the element has no such child.
RECURSIVE job_record(_, _)
job_record(kids, rec) ==
    IF kids = <<>> THEN Return(ListVal(<<rec>>))
    ELSE LET e == Head(kids)
         IN  IF e.kind = "text" THEN job_record(Tail(kids), rec)
             ELSE IF e.data = <<>> THEN Raise(Err("AttributeError", "job_info", 0))
             ELSE IF e.tag \in DOMAIN rec
                  THEN job_record(Tail(kids), [rec EXCEPT ![e.tag] = e.data])
                  ELSE job_record(Tail(kids), rec)

NoRecord == [Status |-> <<>>, OutputLoc |-> <<>>]

RECURSIVE job_records(_)
job_records(found) ==
    IF found = <<>> THEN Return(ListVal(<<>>))
    ELSE LET one == job_record(Head(found).kids, NoRecord)
             rest == job_records(Tail(found))
         IN  IF one.raised THEN one
             ELSE IF rest.raised THEN rest
             ELSE Return(ListVal(one.val.list \o rest.val.list))

----------------------------------------------------------------------------
(* Transport *)

NoParams ==
    [wsid |-> <<>>, pw |-> <<>>, owner_wsid |-> <<>>, owner_pw |-> <<>>,
     jobid |-> 0, args |-> <<>>]
\* A params dict: the job id it names (0 for none) and its other entries,
\* each a key with the fragments of its value.
Params(jobid, args) == [NoParams EXCEPT !.jobid = jobid, !.args = args]

\* One HTTP request to <base_url>/<job_type>, one download of a remote
\* file, one write of the destination.
HttpRequest(job_type, params) ==
    [kind |-> "http", method |-> self.request_type, base |-> self.base_url,
     op |-> job_type, loc |-> <<>>, params |-> params, content |-> ""]
Download(remotefn) ==
    [kind |-> "http", method |-> "GET", base |-> "", op |-> "", loc |-> remotefn,
     params |-> NoParams, content |-> ""]
FileWrite(outfn, content) ==
    [kind |-> "write", method |-> "", base |-> "", op |-> outfn, loc |-> <<>>,
     params |-> NoParams, content |-> content]

\* params["wsid"] = params.get("wsid", self.userid), and the same for "pw".
send_request_params(params) ==
    [params EXCEPT !.wsid = IF @ = <<>> THEN <<self.userid>> ELSE @,
                   !.pw = IF @ = <<>> THEN <<self.password>> ELSE @]

\* The default `params={}` dict after a send: it is the dict the two
\* assignments write to only when the caller passed no params.
send_request_defaults_shared(given) == send_defaults \cup {"wsid", "pw"}
send_request_defaults(given) ==
    IF given THEN send_defaults ELSE send_defaults \cup {"wsid", "pw"}

\* _send_request that sends once more after a non-200 response.
send_request_retry(job_type, params, r) ==
    LET req == HttpRequest(job_type, send_request_params(params))
    IN  IF r.status_code # 200
        THEN After(<<req, req>>, Raise(Err("Exception", job_type, r.status_code)))
        ELSE After(<<req>>, Return(NoVal))

\* _send_request: one request; the response r is what the service answered.
send_request(job_type, params, r) ==
    IF self.request_type \notin {"GET", "POST"}
    THEN Raise(Err("ValueError", "_send_request", 0))
    ELSE After(<<HttpRequest(job_type, send_request_params(params))>>,
               IF r.status_code # 200
               THEN Raise(Err("Exception", job_type, r.status_code))
               ELSE Return(NoVal))

----------------------------------------------------------------------------
(* Job client: what each method does with the responses it is given *)

\* `if not context: context = self.context`
context_or_default(context) == IF context = "" THEN self.context ELSE context

quick(q, context, task_name, system, r) ==
    LET params == Params(0, << <<"qry", q>>,
                               <<"context", <<context_or_default(context)>> >>,
                               <<"taskname", <<task_name>> >>,
                               <<"isSystem", <<system>> >> >>)
        s == send_request("ExecuteQuickJob", params, r)
    IN  IF s.raised THEN s ELSE After(s.sent, parse_single(r.text, "string"))

submit(q, context, task_name, estimate, r) ==
    LET params == Params(0, << <<"qry", q>>,
                               <<"context", <<context_or_default(context)>> >>,
                               <<"taskname", <<task_name>> >>,
                               <<"estimate", <<estimate>> >> >>)
        s == send_request("SubmitJob", params, r)
        t == parse_single(r.text, "long")
    IN  IF s.raised THEN s
        ELSE IF t.raised THEN After(s.sent, t)
        ELSE After(s.sent, int(t.val.text))

\* tuple[i] of Python: a negative i counts from the end.
tuple_index(t, i) ==
    IF 0 <= i /\ i < Len(t) THEN Return([NoVal EXCEPT !.name = t[i + 1]])
    ELSE IF 0 - Len(t) <= i /\ i < 0 THEN Return([NoVal EXCEPT !.name = t[Len(t) + i + 1]])
    ELSE Raise(Err("IndexError", "status_codes", i))

status(job_id, r) ==
    LET s == send_request("GetJobStatus", Params(job_id, <<>>), r)
        t == parse_single(r.text, "int")
        n == int(t.val.text)
        name == tuple_index(self.status_codes, n.val.int)
    IN  IF s.raised THEN s
        ELSE IF t.raised THEN After(s.sent, t)
        ELSE IF n.raised THEN After(s.sent, n)
        ELSE IF name.raised THEN After(s.sent, name)
        ELSE After(s.sent, Return([NoVal EXCEPT !.int = n.val.int, !.name = name.val.name]))

cancel(job_id, r) == send_request("CancelJob", Params(job_id, <<>>), r)

\* job_info(jobid=job_id), the one search get_output makes.
job_info(job_id, r) ==
    LET params == [Params(job_id, << <<"conditions", <<"jobid : ">> >>,
                                     <<"includeSystem", <<"False">> >> >>)
                   EXCEPT !.owner_wsid = <<self.userid>>, !.owner_pw = <<self.password>>]
        s == send_request("GetJobs", params, r)
    IN  IF s.raised THEN s
        ELSE IF ~r.text.wellformed
             THEN After(s.sent, Raise(Err("ExpatError", "job_info", 0)))
             ELSE After(s.sent, job_records(getElementsByTagName(r.text.els, "CJJob")))

job_types == {"CSV", "DataSet", "FITS", "VOTable"}

\* request_output without its assert.
request_output_unchecked(table, outtype, r) ==
    LET s == send_request("SubmitExtractJob",
                          Params(0, << <<"tableName", <<table>> >>, <<"type", <<outtype>> >> >>), r)
        t == parse_single(r.text, "long")
    IN  IF s.raised THEN s
        ELSE IF t.raised THEN After(s.sent, t)
        ELSE After(s.sent, int(t.val.text))

request_output(table, outtype, r) ==
    IF outtype \notin job_types
    THEN Raise(Err("AssertionError", "request_output", 0))
    ELSE LET s == send_request("SubmitExtractJob",
                               Params(0, << <<"tableName", <<table>> >>,
                                            <<"type", <<outtype>> >> >>), r)
             t == parse_single(r.text, "long")
         IN  IF s.raised THEN s
             ELSE IF t.raised THEN After(s.sent, t)
             ELSE After(s.sent, int(t.val.text))

\* int(self.quick(q).split("\n")[1]) for q = "SELECT COUNT(*) %s" % q
count(q, r) ==
    LET res == quick(<<"SELECT COUNT(*) ">> \o q, "", "quickie", "False", r)
        lines == split(res.val.text, NL)
    IN  IF res.raised THEN res
        ELSE IF Len(lines) < 2
             THEN After(res.sent, Raise(Err("IndexError", "count", 0)))
             ELSE After(res.sent, int(lines[2]))

\* [l[1:-1] for l in lines]
strip_ends(lines) == [i \in 1..Len(lines) |-> slice_1_m1(lines[i])]

\* list_tables that drops the header and keeps the last line.
list_tables_keep_last(r) ==
    LET res == quick(<<"SELECT Distinct TABLE_NAME FROM information_schema.TABLES">>,
                     "MYDB", "listtables", "True", r)
    IN  IF res.raised THEN res
        ELSE After(res.sent, Return(ListVal(strip_ends(slice_1(split(res.val.text, NL))))))

list_tables(r) ==
    LET res == quick(<<"SELECT Distinct TABLE_NAME FROM information_schema.TABLES">>,
                     "MYDB", "listtables", "True", r)
    IN  IF res.raised THEN res
        ELSE After(res.sent, Return(ListVal(strip_ends(slice_1_m1(split(res.val.text, NL))))))

\* `if status[0] in [3, 4, 5]: return status`, with a limit on the probes.
monitor_returns_limited(code, n) == code \in {3, 4, 5} \/ n >= 2
\* `if status[0] in [3, 4, 5]: return status`, without the cancelled state.
monitor_returns_45(code, n) == code \in {4, 5}
\* `if status[0] in [3, 4, 5]: return status`, on the n-th probe of the loop.
monitor_returns(code, n) == code \in {3, 4, 5}

\* get_output that goes on to the download whatever the status is.
get_output_check_none(job_id, recs) ==
    IF recs = <<>> THEN Raise(Err("IndexError", "get_output", 0))
    ELSE IF recs[1].OutputLoc = <<>> THEN Raise(Err("KeyError", "OutputLoc", 0))
    ELSE Return(TextVal(recs[1].OutputLoc[1]))

\* get_output from `job_info = self.job_info(jobid=job_id)[0]` to
\* `remotefn = job_info["OutputLoc"]`, given the records job_info returned.
get_output_check(job_id, recs) ==
    IF recs = <<>> THEN Raise(Err("IndexError", "get_output", 0))
    ELSE IF recs[1].Status = <<>> THEN Raise(Err("KeyError", "Status", 0))
    ELSE LET st == int(recs[1].Status[1])
             name == tuple_index(self.status_codes, st.val.int)
         IN  IF st.raised THEN st
             ELSE IF st.val.int # 5
                  THEN IF name.raised THEN name
                       ELSE Raise(Err("Exception", "The status of job", st.val.int))
             ELSE IF recs[1].OutputLoc = <<>> THEN Raise(Err("KeyError", "OutputLoc", 0))
             ELSE Return(TextVal(recs[1].OutputLoc[1]))

\* get_output from `r = requests.get(remotefn)` to the write of the file.
get_output_download(remotefn, outfn, r) ==
    After(<<Download(remotefn)>>,
          IF r.status_code # 200
          THEN Raise(Err("Exception", "Getting file", r.status_code))
          ELSE After(<<FileWrite(outfn, r.content)>>, Return(NoVal)))

\* `if status[0] != 5: raise Exception(...)` after monitor, skipped.
require_finished_skip(code, message) == Return(NoVal)
\* `if status[0] != 5: raise Exception(...)` of request_and_get_output and drop_table.
require_finished(code, message) ==
    IF code # 5 THEN Raise(Err("Exception", message, 0)) ELSE Return(NoVal)

----------------------------------------------------------------------------
(* The service *)

HttpCodes == {200, 404, 500}
\* Status codes the service may hold for the job: the six of the table,
\* and codes outside it on either side.
SrvCodes == {-7, -1, 0, 1, 2, 3, 4, 5, 6}
Terminal == {3, 4, 5}
JobIds == {7, 12}

DigitChar(d) ==
    CASE d = 0 -> "0" [] d = 1 -> "1" [] d = 2 -> "2" [] d = 3 -> "3"
      [] d = 4 -> "4" [] d = 5 -> "5" [] d = 6 -> "6" [] d = 7 -> "7"
      [] d = 8 -> "8" [] d = 9 -> "9"
RECURSIVE NatText(_)
NatText(n) == IF n < 10 THEN <<DigitChar(n)>> ELSE NatText(n \div 10) \o <<DigitChar(n % 10)>>
IntText(n) == IF n < 0 THEN <<"-">> \o NatText(0 - n) ELSE NatText(n)

\* The bodies the service may send where the client expects <tag>t</tag>
\* for a t of texts: that body; a body without the tag; the tag empty; the tag
\* holding an element first; the tag twice (nested, hence thrice in
\* document order) with other as the later text; and a body that is not XML.
ScalarBodies(tag, texts, other) ==
    {Doc(<<El(tag, <<TextNode(t)>>)>>) : t \in texts}
    \cup {Doc(<<El("Envelope", <<ElemNode(tag, <<t>>), ElemNode(tag, <<other>>)>>),
               El(tag, <<TextNode(t)>>), El(tag, <<TextNode(other)>>)>>) : t \in texts}
    \cup {Doc(<<El("Fault", <<TextNode(other)>>)>>),
          Doc(<<El(tag, <<>>)>>),
          Doc(<<El(tag, <<ElemNode("b", <<other>>)>>)>>),
          NotXml}

\* The responses of the service with one of `bodies` on a 200; an error
\* status carries no XML.
Responses(bodies) ==
    {[status_code |-> 200, text |-> b, content |-> ""] : b \in bodies}
    \cup {[status_code |-> c, text |-> NotXml, content |-> ""] : c \in HttpCodes \ {200}}

\* The statuses the job may have moved to while the client was not
\* asking: a job in a terminal state stays in it.
NextStatus == IF server \in Terminal THEN {server} ELSE SrvCodes

\* The answers to GetJobStatus: the status the service holds in the
\* scalar tag, or a body the client cannot read, or an error status.
StatusResponses ==
    Responses({Doc(<<El("int", <<TextNode(IntText(server))>>)>>),
               Doc(<<El("int", <<TextNode(<<"x">>)>>)>>),
               Doc(<<El("Fault", <<TextNode(<<"x">>)>>)>>),
               Doc(<<El("int", <<>>)>>)})
JobIdResponses == Responses(ScalarBodies("long", {IntText(j) : j \in JobIds} \cup {<<"x">>}, <<"1">>))

RemoteFile == <<"h", "/", "f">>
\* The search results for the job: its record, with or without an output
\* location, or with an empty one; a record whose status is no number; no
\* record; no XML; an error status.
JobInfoResponses ==
    Responses({
        Doc(<<El("CJJob", <<TextNode(<<NL>>), ElemNode("JobID", <<<<"7">>>>),
                            ElemNode("Status", <<IntText(server)>>),
                            ElemNode("OutputLoc", <<RemoteFile>>)>>)>>),
        Doc(<<El("CJJob", <<ElemNode("Status", <<IntText(server)>>)>>)>>),
        Doc(<<El("CJJob", <<ElemNode("Status", <<IntText(server)>>),
                            ElemNode("OutputLoc", <<>>)>>)>>),
        Doc(<<El("CJJob", <<ElemNode("Status", <<<<"x">>>>),
                            ElemNode("OutputLoc", <<RemoteFile>>)>>)>>),
        Doc(<<El("ArrayOfCJJob", <<>>)>>),
        NotXml})

DownloadResponses ==
    {[status_code |-> c, text |-> NotXml, content |-> IF c = 200 THEN "bytes" ELSE ""] :
        c \in HttpCodes}

\* The result text of a quick job listing tables: a header line, each name
\* quoted on a line of its own, and the empty last line.
Header == <<"T", "A", "B", "L", "E", "_", "N", "A", "M", "E">>
Names == {<<"p", "i", "s", "c", "e", "s", "2">>,
          <<"m", "y", "d", "b", "_", "t", "a", "b", "l", "e">>}
RECURSIVE NameLists(_)
NameLists(n) ==
    IF n = 0 THEN {<<>>}
    ELSE NameLists(n - 1) \cup {Append(l, x) : l \in NameLists(n - 1), x \in Names}
RECURSIVE TableLines(_)
TableLines(names) ==
    IF names = <<>> THEN <<>>
    ELSE <<QUOTE>> \o Head(names) \o <<QUOTE, NL>> \o TableLines(Tail(names))
TableText(names) == Header \o <<NL>> \o TableLines(names)

\* The result texts of quick jobs: table listings, a count, and texts
\* that are neither (one line only, a second line that is no number, a
\* listing whose last line does not end).
QuickTexts ==
    {TableText(l) : l \in NameLists(MaxTables)}
    \cup {<<"C", NL, "4", "2", NL>>, <<"C">>, <<"C", NL, "x", NL>>,
          Header \o <<NL, QUOTE, "t", QUOTE>>}
QuickResponses == Responses(ScalarBodies("string", QuickTexts, <<"z">>))

----------------------------------------------------------------------------
(* The client as a state machine *)

StatusCodes == <<"ready", "started", "canceling", "cancelled", "failed", "finished">>

\* A call: the method, its job_id, outtype and outfn arguments where it has
\* them, and the locals `status` (what monitor returned) and `remotefn`.
NoCall ==
    [op |-> "", job_id |-> 0, outtype |-> "", outfn |-> "", status |-> <<>>,
     remotefn |-> <<>>]
Call(op, job_id, outtype, outfn) ==
    [NoCall EXCEPT !.op = op, !.job_id = job_id, !.outtype = outtype, !.outfn = outfn]
NoResult == [op |-> "", kind |-> "none", val |-> NoVal, err |-> NoErr]
NoResp == [via |-> "", status_code |-> 0, text |-> NotXml, content |-> ""]
Received(via, r) ==
    [via |-> via, status_code |-> r.status_code, text |-> r.text, content |-> r.content]
Pending(op) == [NoResult EXCEPT !.op = op, !.kind = "pending"]
Outcome(op, o) ==
    [op |-> op, kind |-> IF o.raised THEN "error" ELSE "ok", val |-> o.val, err |-> o.err]

\* __init__: the attributes it sets; request_type is one of the two it accepts.
Init ==
    /\ self \in {[userid |-> 42, password |-> "secret",
                  base_url |-> "http://skyserver.sdss3.org/casjobs/services/jobs.asmx",
                  context |-> "DR7", status_codes |-> StatusCodes,
                  request_type |-> rt] : rt \in {"GET", "POST"}}
    /\ send_defaults = {}
    /\ pc = "idle"
    /\ call = NoCall
    /\ log = <<>>
    /\ probes = 0
    /\ sleeps = 0
    /\ seen = <<>>
    /\ result = NoResult
    /\ resp = NoResp
    /\ server \in SrvCodes

\* A method that makes at most one request: called and run to its end,
\* with outcome o on the response r to its request `via`.
Single(c, o, via, r) ==
    /\ pc = "idle"
    /\ pc' = "done"
    /\ call' = c
    /\ log' = o.sent
    /\ probes' = 0
    /\ sleeps' = 0
    /\ seen' = <<>>
    /\ result' = Outcome(c.op, o)
    /\ resp' = IF o.sent = <<>> THEN NoResp ELSE Received(via, r)
    /\ send_defaults' = IF o.sent = <<>> THEN send_defaults ELSE send_request_defaults(TRUE)
    /\ UNCHANGED <<self, server>>

\* A method of several steps is called: its first step comes next.
Enter(c, first) ==
    /\ pc = "idle"
    /\ pc' = first
    /\ call' = c
    /\ log' = <<>>
    /\ probes' = 0
    /\ sleeps' = 0
    /\ seen' = <<>>
    /\ result' = Pending(c.op)
    /\ resp' = NoResp
    /\ UNCHANGED <<self, send_defaults, server>>

Queries == {<<"FROM information_schema.TABLES">>}
Contexts == {"", "MYDB"}

Quick ==
    \E q \in Queries, context \in Contexts, r \in QuickResponses :
        Single(Call("quick", 0, "", ""), quick(q, context, "quickie", "False", r), "ExecuteQuickJob", r)

Submit ==
    \E q \in Queries, context \in Contexts, r \in JobIdResponses :
        Single(Call("submit", 0, "", ""), submit(q, context, "casjobs", "30", r), "SubmitJob", r)

Status ==
    \E job_id \in JobIds, r \in StatusResponses :
        Single(Call("status", job_id, "", ""), status(job_id, r), "GetJobStatus", r)

Cancel ==
    \E job_id \in JobIds, r \in Responses({Doc(<<>>)}) :
        Single(Call("cancel", job_id, "", ""), cancel(job_id, r), "CancelJob", r)

JobInfo ==
    \E job_id \in JobIds, r \in JobInfoResponses :
        Single(Call("job_info", job_id, "", ""), job_info(job_id, r), "GetJobs", r)

OutTypes == {"CSV", "VOTable", "XML", "csv"}

RequestOutput ==
    \E outtype \in OutTypes, r \in JobIdResponses :
        Single(Call("request_output", 0, outtype, ""),
               request_output("mytable", outtype, r), "SubmitExtractJob", r)

Count ==
    \E q \in Queries, r \in QuickResponses :
        Single(Call("count", 0, "", ""), count(q, r), "ExecuteQuickJob", r)

ListTables ==
    \E r \in QuickResponses :
        Single(Call("list_tables", 0, "", ""), list_tables(r), "ExecuteQuickJob", r)

\* monitor(job_id) is called: `while True:` is entered.
Monitor ==
    \E job_id \in JobIds : Enter(Call("monitor", job_id, "", ""), "monitor_status")

\* get_output(job_id, outfn) is called.
GetOutput ==
    \E job_id \in JobIds : Enter(Call("get_output", job_id, "", "out.fits"), "get_output_job_info")

\* The running method ends with outcome o.
Finish(o) ==
    /\ pc' = "done"
    /\ result' = Outcome(call.op, o)
    /\ call' = call

\* request_and_get_output(table, outtype, outfn) is called and runs
\* `job_id = self.request_output(table, outtype)`.
RequestAndGetOutput ==
    \E outtype \in OutTypes, r \in JobIdResponses :
        LET c == Call("request_and_get_output", 0, outtype, "out.fits")
            o == request_output("mytable", outtype, r)
        IN  /\ pc = "idle"
            /\ log' = o.sent
            /\ probes' = 0
            /\ sleeps' = 0
            /\ seen' = <<>>
            /\ resp' = IF o.sent = <<>> THEN NoResp ELSE Received("SubmitExtractJob", r)
            /\ send_defaults' = IF o.sent = <<>> THEN send_defaults
                                 ELSE send_request_defaults(TRUE)
            /\ IF o.raised
               THEN /\ pc' = "done"
                    /\ call' = c
                    /\ result' = Outcome(c.op, o)
               ELSE /\ pc' = "monitor_status"
                    /\ call' = [c EXCEPT !.job_id = o.val.int]
                    /\ result' = Pending(c.op)
            /\ UNCHANGED <<self, server>>

\* drop_table(table) is called and runs
\* `job_id = self.submit("DROP TABLE %s"%table, context="MYDB")`.
DropTable ==
    \E r \in JobIdResponses :
        LET c == Call("drop_table", 0, "", "")
            o == submit(<<"DROP TABLE ", "mytable">>, "MYDB", "casjobs", "30", r)
        IN  /\ pc = "idle"
            /\ log' = o.sent
            /\ probes' = 0
            /\ sleeps' = 0
            /\ seen' = <<>>
            /\ resp' = Received("SubmitJob", r)
            /\ send_defaults' = send_request_defaults(TRUE)
            /\ IF o.raised
               THEN /\ pc' = "done"
                    /\ call' = c
                    /\ result' = Outcome(c.op, o)
               ELSE /\ pc' = "monitor_status"
                    /\ call' = [c EXCEPT !.job_id = o.val.int]
                    /\ result' = Pending(c.op)
            /\ UNCHANGED <<self, server>>

\* One pass of the loop of monitor up to the sleep: `self.status(job_id)`,
\* the test of the code and, on a terminal code, the return to the caller,
\* with what request_and_get_output and drop_table do on that return.
MonitorStatus ==
    /\ pc = "monitor_status"
    /\ \E r \in StatusResponses :
        LET o == status(call.job_id, r)
            fin == IF call.op = "monitor" THEN Return(o.val)
                   ELSE IF call.op = "drop_table"
                        THEN require_finished(o.val.int, "Couldn't drop table")
                        ELSE require_finished(o.val.int, "Output request failed.")
            returns == ~o.raised /\ monitor_returns(o.val.int, probes + 1)
            tracked == Len(seen) = probes /\ probes < MaxProbes
        IN  /\ resp' = Received("GetJobStatus", r)
            /\ probes' = IF tracked /\ (returns \/ probes + 1 < MaxProbes)
                         THEN probes + 1 ELSE MaxProbes
            /\ log' = IF probes < MaxProbes THEN log \o o.sent ELSE log
            /\ seen' = IF ~tracked THEN <<>>
                       ELSE IF o.raised THEN seen
                       ELSE IF returns \/ probes + 1 < MaxProbes
                            THEN Append(seen, o.val.int)
                            ELSE <<>>
            /\ send_defaults' = send_request_defaults(TRUE)
            /\ IF o.raised THEN Finish(o)
               ELSE IF ~returns
                    THEN pc' = "monitor_sleep" /\ UNCHANGED <<call, result>>
               ELSE IF call.op = "request_and_get_output" /\ ~fin.raised
                    THEN /\ pc' = "get_output_job_info"
                         /\ call' = [call EXCEPT !.status = <<o.val.int, o.val.name>>]
                         /\ result' = result
               ELSE Finish(fin)
            /\ UNCHANGED <<self, sleeps, server>>

\* `time.sleep(timeout)`, and back to the top of the loop; the job may
\* have moved on in the meantime.
MonitorSleep ==
    /\ pc = "monitor_sleep"
    /\ pc' = "monitor_status"
    /\ sleeps' = IF sleeps < MaxProbes THEN sleeps + 1 ELSE sleeps
    /\ server' \in NextStatus
    /\ UNCHANGED <<self, send_defaults, call, log, probes, seen, result, resp>>

\* get_output up to the download: the job search and the test of the status.
GetOutputJobInfo ==
    /\ pc = "get_output_job_info"
    /\ \E r \in JobInfoResponses :
        LET ji == job_info(call.job_id, r)
            o == IF ji.raised THEN ji
                 ELSE After(ji.sent, get_output_check(call.job_id, ji.val.list))
        IN  /\ log' = log \o o.sent
            /\ resp' = Received("GetJobs", r)
            /\ send_defaults' = send_request_defaults(TRUE)
            /\ IF o.raised THEN Finish(o)
               ELSE /\ pc' = "get_output_download"
                    /\ call' = [call EXCEPT !.remotefn = o.val.text]
                    /\ result' = result
            /\ UNCHANGED <<self, probes, sleeps, seen, server>>

\* get_output from the download on: the request, the test of its status,
\* the write of the destination.
GetOutputDownload ==
    /\ pc = "get_output_download"
    /\ \E r \in DownloadResponses :
        LET o == get_output_download(call.remotefn, call.outfn, r)
        IN  /\ log' = log \o o.sent
            /\ resp' = Received("download", r)
            /\ Finish(o)
            /\ UNCHANGED <<self, send_defaults, probes, sleeps, seen, server>>

\* The caller takes what the call returned or raised and may call again,
\* about any job: of the call, only what it left in the client remains.
CallerResumes ==
    /\ pc = "done"
    /\ pc' = "idle"
    /\ call' = NoCall
    /\ log' = <<>>
    /\ probes' = 0
    /\ sleeps' = 0
    /\ seen' = <<>>
    /\ result' = NoResult
    /\ resp' = NoResp
    /\ server' \in SrvCodes
    /\ UNCHANGED <<self, send_defaults>>

Next ==
    \/ Quick
    \/ Submit
    \/ Status
    \/ Cancel
    \/ Monitor
    \/ JobInfo
    \/ RequestOutput
    \/ GetOutput
    \/ RequestAndGetOutput
    \/ DropTable
    \/ Count
    \/ ListTables
    \/ MonitorStatus
    \/ MonitorSleep
    \/ GetOutputJobInfo
    \/ GetOutputDownload
    \/ CallerResumes

Spec == Init /\ [][Next]_vars

\* A client that only calls monitor, on a thread that keeps running: a
\* probe that can be made is made, a sleep that was started ends.
MonitorNext ==
    \/ Monitor
    \/ MonitorStatus
    \/ MonitorSleep
    \/ CallerResumes

MonitorSpec ==
    Init /\ [][MonitorNext]_vars /\ WF_vars(MonitorStatus) /\ WF_vars(MonitorSleep)

----------------------------------------------------------------------------
(* Properties *)

InLoop == pc \in {"monitor_status", "monitor_sleep"}
\* The loop's probes have all been counted and recorded.
Tracked == Len(seen) = probes
\* The requests of the log to <base_url>/<job_type>.
Sent(job_type) == {i \in 1..Len(log) : log[i].kind = "http" /\ log[i].op = job_type}
Downloads == {i \in 1..Len(log) : log[i].kind = "http" /\ log[i].loc # <<>>}
Writes == {i \in 1..Len(log) : log[i].kind = "write"}
NameOf(code) ==
    CASE code = 0 -> "ready" [] code = 1 -> "started" [] code = 2 -> "canceling"
      [] code = 3 -> "cancelled" [] code = 4 -> "failed" [] code = 5 -> "finished"
      [] OTHER -> "?"

\* C1: monitor returns at the first probe that reads a code of {3, 4, 5},
\* with that code and its name: while the loop runs no code read so far is
\* terminal, every pass made one probe and all but the pass under way one
\* sleep; at the return the last code read is the one returned, it is
\* terminal, none before it is, and k probes were made with k - 1 sleeps.
C1_MonitorReturnsAtFirstTerminal ==
    /\ (InLoop /\ Tracked) =>
          /\ \A i \in 1..Len(seen) : seen[i] \notin {3, 4, 5}
          /\ Cardinality(Sent("GetJobStatus")) = probes
          /\ sleeps = IF pc = "monitor_sleep" THEN probes - 1 ELSE probes
    /\ (pc = "done" /\ call.op = "monitor" /\ result.kind = "ok") =>
          /\ result.val.int \in {3, 4, 5}
          /\ result.val.name = NameOf(result.val.int)
          /\ Tracked =>
                /\ probes >= 1
                /\ seen[probes] = result.val.int
                /\ \A i \in 1..(probes - 1) : seen[i] \notin {3, 4, 5}
                /\ Cardinality(Sent("GetJobStatus")) = probes
                /\ Len(log) = probes
                /\ sleeps = probes - 1

\* The responses [0, 1, 1, 5]: (5, "finished") after 4 probes and 3 sleeps.
C1_Witness ==
    /\ pc = "done"
    /\ call.op = "monitor"
    /\ seen = <<0, 1, 1, 5>>
    /\ result.kind = "ok"
    /\ result.val.int = 5
    /\ result.val.name = "finished"
    /\ probes = 4
    /\ sleeps = 3

\* C2: request_output (alone or as the first step of
\* request_and_get_output) with an outtype outside CSV, DataSet, FITS,
\* VOTable ends at once with an error: nothing was sent, no response was
\* received, no job id is returned.
C2_InvalidOuttypeSendsNothing ==
    (call.op \in {"request_output", "request_and_get_output"}
        /\ call.outtype \notin {"CSV", "DataSet", "FITS", "VOTable"}) =>
          /\ pc = "done"
          /\ result.kind = "error"
          /\ result.val = NoVal
          /\ call.job_id = 0
          /\ log = <<>>
          /\ resp = NoResp

C2_Witness ==
    /\ pc = "done"
    /\ call.op = "request_output"
    /\ call.outtype = "XML"
    /\ result.kind = "error"
    /\ result.err.type = "AssertionError"

\* The status of the first record of the search results last received,
\* as <<s>>; <<>> when the response holds no first record with a status
\* that is a number, or a record the client cannot read.
FirstChildElems(e) == {i \in 1..Len(e.kids) : e.kids[i].kind = "elem"}
RecordedStatus ==
    IF resp.via # "GetJobs" \/ resp.status_code # 200 \/ ~resp.text.wellformed
    THEN <<>>
    ELSE LET jobs == {i \in 1..Len(resp.text.els) : resp.text.els[i].tag = "CJJob"}
         IN  IF jobs = {} \/ \E i \in jobs : \E k \in FirstChildElems(resp.text.els[i]) :
                                resp.text.els[i].kids[k].data = <<>>
             THEN <<>>
             ELSE LET job == resp.text.els[CHOOSE i \in jobs : \A j \in jobs : i <= j]
                      st == {k \in FirstChildElems(job) : job.kids[k].tag = "Status"}
                  IN  IF st = {} THEN <<>>
                      ELSE LET t == job.kids[CHOOSE k \in st : \A j \in st : j <= k].data[1]
                           IN  IF \E n \in SrvCodes : IntText(n) = t
                               THEN <<CHOOSE n \in SrvCodes : IntText(n) = t>>
                               ELSE <<>>

\* C3: get_output on a job whose recorded status is not 5 fails without
\* a download: once the search has answered with a status s # 5 the call
\* has ended with an error, no request went to the output location and
\* nothing was written; for s of 0..4 the error is the one that carries the
\* job's status.
C3_GetOutputNotFinished ==
    (call.op = "get_output" /\ RecordedStatus # <<>> /\ RecordedStatus[1] # 5) =>
          /\ pc = "done"
          /\ result.kind = "error"
          /\ Downloads = {}
          /\ Writes = {}
          /\ Len(log) = 1
          /\ RecordedStatus[1] \in 0..4 =>
                result.err = Err("Exception", "The status of job", RecordedStatus[1])

C3_Witness ==
    /\ pc = "done"
    /\ call.op = "get_output"
    /\ RecordedStatus = <<4>>
    /\ result.err = Err("Exception", "The status of job", 4)
    /\ Downloads = {}

\* The step of request_and_get_output an entry of the log belongs to.
Rank(e) ==
    IF e.kind = "write" THEN 5
    ELSE IF e.loc # <<>> THEN 4
    ELSE IF e.op = "GetJobs" THEN 3
    ELSE IF e.op = "GetJobStatus" THEN 2
    ELSE IF e.op = "SubmitExtractJob" THEN 1
    ELSE 0

\* C4: request_and_get_output runs request_output, then monitor, then
\* get_output, all for the job id request_output returned; when monitor
\* returns 3 or 4 the call ends with an error before any job search,
\* download or write; the search, the download and the write happen only
\* after monitor returned 5.
C4_RequestAndGetOutputOrder ==
    call.op = "request_and_get_output" =>
      /\ \A i, j \in 1..Len(log) : i < j => Rank(log[i]) <= Rank(log[j])
      /\ \A i \in 1..Len(log) : Rank(log[i]) >= 1
      /\ Cardinality(Sent("SubmitExtractJob")) <= 1
      /\ Cardinality(Sent("GetJobs")) <= 1
      /\ Cardinality(Downloads) <= 1
      /\ Cardinality(Writes) <= 1
      /\ log # <<>> => Rank(log[1]) = 1
      /\ \A i \in Sent("GetJobStatus") \cup Sent("GetJobs") :
            call.job_id # 0 /\ log[i].params.jobid = call.job_id
      /\ (pc = "monitor_status" /\ probes = 0) =>
            /\ resp.via = "SubmitExtractJob"
            /\ resp.status_code = 200
            /\ \E k \in 1..Len(resp.text.els) :
                  /\ resp.text.els[k].tag = "long"
                  /\ \A j \in 1..(k - 1) : resp.text.els[j].tag # "long"
                  /\ resp.text.els[k].kids[1].data[1] = IntText(call.job_id)
      /\ (Tracked /\ seen # <<>> /\ seen[Len(seen)] \in {3, 4}) =>
            /\ pc = "done"
            /\ result.kind = "error"
            /\ result.err = Err("Exception", "Output request failed.", 0)
      /\ (result.kind = "error" /\ result.err.where = "Output request failed.") =>
            /\ server \in {3, 4}
            /\ Sent("GetJobs") = {}
            /\ Downloads = {}
            /\ Writes = {}
      /\ (pc \in {"get_output_job_info", "get_output_download"}
            \/ Sent("GetJobs") # {} \/ Downloads # {} \/ Writes # {}) =>
            /\ call.status = <<5, "finished">>
            /\ Sent("GetJobStatus") # {}
      /\ Writes # {} =>
            /\ pc = "done"
            /\ result.kind = "ok"
            /\ Downloads # {}

\* monitor read 0 and then 4: the call failed after the two probes.
C4_Witness ==
    /\ pc = "done"
    /\ call.op = "request_and_get_output"
    /\ seen = <<0, 4>>
    /\ result.err = Err("Exception", "Output request failed.", 0)
    /\ Len(log) = 3

SingleOps ==
    {"quick", "submit", "status", "cancel", "job_info", "request_output", "count",
     "list_tables"}
JobTypeNames ==
    {"ExecuteQuickJob", "SubmitJob", "GetJobStatus", "CancelJob", "GetJobs",
     "SubmitExtractJob"}

\* C5: one request per send and no retry. A response other than 200 ends
\* the call in that step with an error that names the operation and the
\* status, and the request it answered is the last one of the call; the
\* transport raises that error for no 200 response; a call of a method
\* that sends once has logged one request, and a monitor loop one
\* GetJobStatus request per pass.
C5_OneRequestNoRetry ==
    /\ resp.status_code \notin {0, 200} =>
          /\ pc = "done"
          /\ result.kind = "error"
          /\ result.err.type = "Exception"
          /\ result.err.code = resp.status_code
          /\ result.err.where = IF resp.via = "download" THEN "Getting file" ELSE resp.via
          /\ log # <<>>
          /\ log[Len(log)].kind = "http"
          /\ log[Len(log)].op = IF resp.via = "download" THEN "" ELSE resp.via
    /\ (result.kind = "error" /\ result.err.where \in JobTypeNames) =>
          /\ resp.via = result.err.where
          /\ resp.status_code = result.err.code
          /\ resp.status_code # 200
    /\ (pc = "done" /\ call.op \in SingleOps) =>
          Len(log) = IF resp = NoResp THEN 0 ELSE 1
    /\ Cardinality(Sent("GetJobStatus")) = (IF call.op = "status" THEN Len(log) ELSE probes)
    /\ \A t \in JobTypeNames \ {"GetJobStatus"} : Cardinality(Sent(t)) <= 1

\* The third probe of a monitor call is answered 500: the call has failed.
C5_Witness ==
    /\ pc = "done"
    /\ call.op = "monitor"
    /\ seen = <<0, 1>>
    /\ probes = 3
    /\ Len(log) = 3
    /\ resp.status_code = 500
    /\ result.err = Err("Exception", "GetJobStatus", 500)

\* The tag of the scalar each method reads from its response.
ScalarTag(op) ==
    CASE op \in {"quick", "count", "list_tables"} -> "string"
      [] op \in {"submit", "request_output"} -> "long"
      [] op = "status" -> "int"
\* The elements of the last response with that tag, by position.
Tagged(tag) == {i \in 1..Len(resp.text.els) : resp.text.els[i].tag = tag}
FirstTagged(tag) == resp.text.els[CHOOSE i \in Tagged(tag) : \A j \in Tagged(tag) : i <= j]
\* The first element with that tag is there and starts with text.
HasText(tag) ==
    /\ Tagged(tag) # {}
    /\ FirstTagged(tag).kids # <<>>
    /\ FirstTagged(tag).kids[1].kind = "text"
TextOf(tag) == FirstTagged(tag).kids[1].data[1]
Numbers == -20..20
IsNumber(t) == \E n \in Numbers : IntText(n) = t
NumberOf(t) == CHOOSE n \in Numbers : IntText(n) = t

\* C6: on a 200 response that is XML, the scalar a method reads is the
\* text of the first element with its tag: quick returns that text; submit
\* and request_output the number it writes; status that number with its
\* name. When the tag is absent or does not start with text, quick,
\* submit, status, request_output (and count and list_tables through
\* quick) end with the parser's error and return nothing.
C6_ScalarOrError ==
    (pc = "done" /\ call.op \in SingleOps \ {"cancel", "job_info"}
        /\ resp.status_code = 200 /\ resp.text.wellformed) =>
      LET tag == ScalarTag(call.op)
      IN  IF ~HasText(tag)
          THEN /\ result.kind = "error"
               /\ result.err.type = IF Tagged(tag) = {} THEN "IndexError" ELSE "AttributeError"
               /\ result.err.where = "_parse_single"
               /\ result.val = NoVal
          ELSE /\ call.op = "quick" =>
                    /\ result.kind = "ok"
                    /\ result.val.text = TextOf(tag)
               /\ call.op \in {"submit", "request_output"} =>
                    IF IsNumber(TextOf(tag))
                    THEN result.kind = "ok" /\ result.val.int = NumberOf(TextOf(tag))
                    ELSE result.kind = "error" /\ result.err.type = "ValueError"
               /\ call.op = "status" =>
                    IF IsNumber(TextOf(tag))
                    THEN result.kind = "ok" => result.val.int = NumberOf(TextOf(tag))
                    ELSE result.kind = "error" /\ result.err.type = "ValueError"

\* submit is answered <long/>: it raises, and returns no job id.
C6_Witness ==
    /\ pc = "done"
    /\ call.op = "submit"
    /\ resp.status_code = 200
    /\ resp.text = Doc(<<El("long", <<>>)>>)
    /\ result.kind = "error"
    /\ result.err.type = "AttributeError"

\* C7: when the result text of the quick job is a header line, n quoted
\* names each on its line, and the empty last line, list_tables returns
\* those n names in order, without the quotes.
C7_ListTables ==
    (pc = "done" /\ call.op = "list_tables" /\ resp.status_code = 200
        /\ resp.text.wellformed /\ HasText("string")) =>
      \A names \in NameLists(MaxTables) :
          TextOf("string") = TableText(names) =>
              /\ result.kind = "ok"
              /\ result.val.list = names
              /\ Len(result.val.list) = Len(names)
              /\ \A i \in 1..Len(result.val.list) :
                    /\ result.val.list[i] # <<>>
                    /\ result.val.list[i] # Header
                    /\ \A k \in 1..Len(result.val.list[i]) : result.val.list[i][k] # QUOTE

\* The listing of pisces2 and mydb_table.
C7_Witness ==
    /\ pc = "done"
    /\ call.op = "list_tables"
    /\ resp.status_code = 200
    /\ HasText("string")
    /\ TextOf("string") = Header \o <<NL, QUOTE, "p", "i", "s", "c", "e", "s", "2", QUOTE, NL,
                                     QUOTE, "m", "y", "d", "b", "_", "t", "a", "b", "l", "e",
                                     QUOTE, NL>>
    /\ result.val.list = << <<"p", "i", "s", "c", "e", "s", "2">>,
                            <<"m", "y", "d", "b", "_", "t", "a", "b", "l", "e">> >>

\* C8: status returns a code of 0..5 with the name the table gives it, and
\* fails for every code outside 0..5.
C8_StatusNameOfCode ==
    (pc = "done" /\ call.op = "status" /\ result.kind = "ok") =>
        /\ result.val.int \in 0..5
        /\ result.val.name = NameOf(result.val.int)

\* C9: monitor ends exactly on a terminal status. Once the service holds a
\* terminal status for the job, a running loop comes to its end; a loop
\* ends without an error only in a step that read a terminal status; a
\* loop that has not ended can always go on, however many probes it has
\* made.
C9_MonitorTermination ==
    /\ [](InLoop /\ server \in Terminal => <>(~InLoop))
    /\ [][(InLoop /\ ~InLoop' /\ result'.kind # "error") =>
            (pc = "monitor_status" /\ server' \in Terminal
                /\ resp'.text = Doc(<<El("int", <<TextNode(IntText(server'))>>)>>))]_vars
    /\ [](pc = "monitor_status" => ENABLED MonitorStatus)
    /\ [](pc = "monitor_sleep" => ENABLED MonitorSleep)

\* A loop that made more probes than are counted, and then returned.
C9_Witness ==
    /\ pc = "done"
    /\ call.op = "monitor"
    /\ result.kind = "ok"
    /\ probes = MaxProbes
    /\ ~Tracked
    /\ sleeps = MaxProbes

\* The requests of the log to the job service carry the client's
\* identity and go to its endpoint in its request mode.
OwnRequests ==
    \A i \in 1..Len(log) :
        (log[i].kind = "http" /\ log[i].loc = <<>>) =>
            /\ log[i].base = self.base_url
            /\ log[i].method = self.request_type
            /\ log[i].params.wsid = <<self.userid>>
            /\ log[i].params.pw = <<self.password>>
            /\ log[i].op \in {"GetJobStatus", "CancelJob", "GetJobs"} =>
                  log[i].params.jobid = call.job_id

\* C10: no step of any operation, successful or failed, changes the
\* client's attributes or stores anything in the default params of the
\* transport, the one other place where the client could keep state; every
\* request to the service carries the configured identity, endpoint and
\* mode and the job id of the running call, whatever calls came before.
C10_ClientStateless ==
    /\ [][self' = self /\ send_defaults' = send_defaults]_vars
    /\ [](self.status_codes = StatusCodes /\ send_defaults = {})
    /\ []OwnRequests

\* A call of several requests that failed at its end.
C10_Witness ==
    /\ pc = "done"
    /\ call.op = "request_and_get_output"
    /\ result.kind = "error"
    /\ Downloads # {}
    /\ send_defaults = {}

====
